---- MODULE Spec2Model ----
(***************************************************************************)
(* State-machine model of OnebitLamb                                       *)
(* (deepspeed/runtime/fp16/onebit/onebitlamb.py): the phase flags, the     *)
(* per-parameter optimizer state, the fused momentum buffer, the           *)
(* error-feedback buffers, the scaling coefficients and the checkpoint     *)
(* save / load operations.                                                 *)
(*                                                                         *)
(* Tensors are abstracted symbolically.  A tensor is represented by the    *)
(* history of in-place operations applied to it since it was zero:         *)
(*   exp_avg          [g, k, r, z]  g gradient applications, k net number  *)
(*                    of multiplications by its scaling coefficient,       *)
(*                    r reductions, z "is the zero tensor"                 *)
(*   exp_avg_sq       number of warm-up updates                            *)
(*   exp_avg_sq_back  [base, n]  base = the exp_avg_sq it was snapshotted  *)
(*                    from (0 = zeros), n reconstruct updates since        *)
(*   p.data           number of p.add_ updates                             *)
(*   error buffer     [size, ver]  ver reductions that wrote it (0=zeros)  *)
(* The fused buffer is kept element by element: each position names the   *)
(* momentum element (or padding element) stored there.  A scaling          *)
(* coefficient is an exact fraction of the momentum magnitudes, which are  *)
(* inputs of the step that computes the coefficients.                      *)
(* Scalars that the code compares (step, last_factor, the factor bounds)   *)
(* are exact: factors are integers in units of 1/Unit.                     *)
(* A checkpoint is the serialized image of state_dict() at save time.      *)
(***************************************************************************)
EXTENDS Integers, Sequences, FiniteSets, TLC

\* ---- bounds of the model ----
MaxCalls == 4        \* step() calls per optimizer instance
MaxInstances == 2    \* optimizer instances constructed in one behaviour
MaxFreeze == 3       \* largest freeze_step explored
MaxOps == 7          \* operations (step, save, load, construct) in one behaviour
MaxWorld == 4        \* largest world size explored by the shape runs
MaxNumel == 4        \* largest element count of a parameter in the shape runs

\* ---- shapes: element count of each parameter, in group/parameter order ----
ParamNumel == <<3, 5>>
GroupSizes == <<1, 1>>
NumParams == Len(ParamNumel)
Params == 1..NumParams
NumGroups == Len(GroupSizes)

RECURSIVE Pow2(_)
Pow2(n) == IF n = 0 THEN 1 ELSE 2 * Pow2(n - 1)

\* 1.0 in factor units; every rate-limit step halves the denominator at most
Unit == Pow2(MaxCalls * MaxInstances + 2)

\* configurations explored (constructor arguments)
FreezeSteps == 1..MaxFreeze
WorldSizes == {1, 2}
FactorConfigs == { [fmin |-> Unit \div 2, fmax |-> 4 * Unit],
                   [fmin |-> 2 * Unit,    fmax |-> 4 * Unit] }
\* factor_threshold, as the fraction num / den
Threshold == [num |-> 1, den |-> 2]

\* inputs of one step
GradKinds == {"none", "dense", "sparse"}
LambCoeffs == {"one", "other"}
RawFactors == {Unit \div 4, Unit, 8 * Unit}
\* norm / sqrt(numel) of a momentum that is not zero
Magnitudes == {1, 2, 8}

VARIABLES
    freeze_step, size, factor_min, factor_max,   \* configuration
    numel,                                       \* torch.numel(p.data) of every parameter
    lamb_freeze_key, initialize,                 \* phase flags
    state,                                       \* self.state[p]
    pdata,                                       \* p.data of every parameter
    exp_avg_flat, corrected_tensor_sizes, server_chunk_sizes,
    worker_errors, server_errors, scaling_coeffs,
    enable_backward_allreduce,                   \* self.deepspeed flag
    lamb_coeffs,                                 \* trust ratios applied by the last step
    peer,                                        \* the optimizer of a second worker
    ckpt,                                        \* the saved checkpoint
    last,                                        \* the last operation and its outcome
    ncalls, inst, clean,                         \* history of this instance
    restored,                                    \* restored error buffers not yet reduced
    nops                                         \* operations performed so far

vars == <<freeze_step, size, factor_min, factor_max, numel, lamb_freeze_key, initialize,
          state, pdata, exp_avg_flat, corrected_tensor_sizes, server_chunk_sizes,
          worker_errors, server_errors, scaling_coeffs, enable_backward_allreduce,
          lamb_coeffs, peer, ckpt, last, ncalls, inst, clean, restored, nops>>

\* ---- parameter groups ----
RECURSIVE SumSeq(_, _)
SumSeq(s, n) == IF n = 0 THEN 0 ELSE s[n] + SumSeq(s, n - 1)

\* group of parameter p and its index inside the group (both 1-based)
GroupTable == [p \in Params |-> CHOOSE i \in 1..NumGroups :
                  SumSeq(GroupSizes, i - 1) < p /\ p <= SumSeq(GroupSizes, i)]
GroupOf(p) == GroupTable[p]
IndexTable == [p \in Params |-> p - SumSeq(GroupSizes, GroupOf(p) - 1)]
IndexIn(p) == IndexTable[p]
ParamsTable == [i \in 1..NumGroups |-> { p \in Params : GroupOf(p) = i }]
ParamsOf(i) == ParamsTable[i]

\* ---- per-parameter state ----
ZeroMomentum == [g |-> 0, k |-> 0, r |-> 0, z |-> TRUE]
ZeroBack == [base |-> 0, n |-> 0]

EmptyState == [has |-> "empty", step |-> 0, lamb_coeff_freeze |-> 0,
               last_factor |-> Unit, exp_avg |-> ZeroMomentum,
               exp_avg_sq |-> 0, exp_avg_sq_back |-> ZeroBack]

\* the lazy initialization of step(), lines 198-206
InitState == [EmptyState EXCEPT !.has = "full"]

\* ---- __init__ ----
divider == (size * 8) \div (CHOOSE d \in 1..8 :
               /\ size % d = 0 /\ 8 % d = 0
               /\ \A e \in 1..8 : (size % e = 0 /\ 8 % e = 0) => e <= d)

\* an optimizer after construction, as one value
Fresh == [key |-> FALSE, init |-> FALSE, st |-> [p \in Params |-> EmptyState],
          pd |-> [p \in Params |-> 0], flat |-> <<>>, cts |-> <<>>, scs |-> <<>>,
          we |-> <<>>, se |-> <<>>, sc |-> <<>>, eba |-> TRUE, lc |-> <<>>,
          leak |-> 0, err |-> "ok"]

\* a run of one worker has no second optimizer
NoPeer == [present |-> FALSE]

NoCkpt == [present |-> FALSE]
\* op: the operation; err: "ok" or the exception it raised; mode: the update mode
\* of a step / the branch of a load; trans: the phase changed; miss: the
\* checkpoint fields that were absent
Did(op, err, mode, trans, miss) ==
    [op |-> op, err |-> err, mode |-> mode, trans |-> trans, miss |-> miss]
NoOp == Did("init", "ok", "none", FALSE, {})

\* the optimizer after construction, its arguments drawn from the given sets
InitWith(Freezes, Worlds, Shapes, Peers) ==
    /\ freeze_step \in Freezes
    /\ size \in Worlds
    /\ numel \in Shapes
    /\ \E fc \in FactorConfigs : factor_min = fc.fmin /\ factor_max = fc.fmax
    /\ lamb_freeze_key = FALSE
    /\ initialize = FALSE
    /\ state = [p \in Params |-> EmptyState]
    /\ pdata = [p \in Params |-> 0]
    /\ exp_avg_flat = <<>>
    /\ corrected_tensor_sizes = <<>>
    /\ server_chunk_sizes = <<>>
    /\ worker_errors = <<>>
    /\ server_errors = <<>>
    /\ scaling_coeffs = <<>>
    /\ enable_backward_allreduce = TRUE
    /\ lamb_coeffs = <<>>
    /\ peer \in Peers
    /\ ckpt = NoCkpt
    /\ last = NoOp
    /\ ncalls = 0
    /\ inst = 1
    /\ clean = TRUE
    /\ restored = FALSE
    /\ nops = 0

Init == InitWith(FreezeSteps, WorldSizes, {ParamNumel}, {NoPeer})

\* ---- the optimizer as one value, threaded through the stages of step() ----
Self == [key |-> lamb_freeze_key, init |-> initialize, st |-> state, pd |-> pdata,
         flat |-> exp_avg_flat, cts |-> corrected_tensor_sizes,
         scs |-> server_chunk_sizes, we |-> worker_errors, se |-> server_errors,
         sc |-> scaling_coeffs, eba |-> enable_backward_allreduce,
         lc |-> lamb_coeffs, leak |-> 0, err |-> "ok"]

Raise(o, e) == [o EXCEPT !.err = e]

\* a trust ratio (lamb_coeff): in a warm-up update the class of the ratio
\* computed from the norms, in a compression update the product
\* lamb_coeff_freeze * factor
WarmupCoeff(c) == [ratio |-> c, freeze |-> 0, factor |-> 0]
FrozenCoeff(freeze, factor) == [ratio |-> "frozen", freeze |-> freeze, factor |-> factor]

\* step(), line 156
ClearCoeffs(o) == [o EXCEPT !.lc = <<>>]

\* ---- step(), lines 158-179: snapshot of the momenta, scaling coefficients ----
ParamAt(i, j) == SumSeq(GroupSizes, i - 1) + j

\* momentum_scales[i][j]: 0 for the zero tensor, else the magnitude given
Magnitude(o, p, mags) == IF o.st[p].exp_avg.z THEN 0 ELSE mags[p]

\* united_scale, as the fraction num / den
UnitedScale(o, mags) ==
    [num |-> SumSeq([q \in Params |-> Magnitude(o, q, mags)], NumParams),
     den |-> NumParams]

\* faulty variant: the magnitude is divided by united_scale
Coeff_Inverted(o, p, mags) ==
    [scale |-> Magnitude(o, p, mags),
     value |-> [num |-> Magnitude(o, p, mags) * UnitedScale(o, mags).den,
                den |-> UnitedScale(o, mags).num]]

\* united_scale / momentum_scales[i][j]: value is the coefficient, as a
\* fraction; scale records the magnitude it was computed from
Coeff(o, p, mags) ==
    [scale |-> Magnitude(o, p, mags),
     value |-> [num |-> UnitedScale(o, mags).num,
                den |-> UnitedScale(o, mags).den * Magnitude(o, p, mags)]]

\* a group's coefficients can be computed when no momentum of it has magnitude 0
GroupScalable(o, i) == \A p \in ParamsOf(i) : ~o.st[p].exp_avg.z

ComputeScalingCoeffs(o, mags) ==
    LET n == CHOOSE m \in 0..NumGroups :
                 /\ \A i \in 1..m : GroupScalable(o, i)
                 /\ (m < NumGroups => ~GroupScalable(o, m + 1))
        coeffs == [i \in 1..n |-> [j \in 1..GroupSizes[i] |-> Coeff(o, ParamAt(i, j), mags)]]
    IN  [o EXCEPT !.sc = o.sc \o coeffs,
                  !.err = IF n < NumGroups THEN "ZeroDivisionError" ELSE "ok"]

Calibrate(o, mags) ==
    IF o.err # "ok" \/ ~o.key THEN o
    ELSE IF \E p \in Params : o.st[p].has # "full" THEN Raise(o, "KeyError")
    ELSE IF Len(o.sc) = 0 THEN ComputeScalingCoeffs(o, mags)
    ELSE o

\* ---- step(), lines 181-250: the loop over the parameters ----
HasCoeff(o, p) == /\ GroupOf(p) <= Len(o.sc)
                  /\ IndexIn(p) <= Len(o.sc[GroupOf(p)])

ApplyGrad(m) == [m EXCEPT !.g = m.g + 1, !.z = FALSE]

\* lines 218-243: warm-up update of one parameter
WarmupUpdate(o, p, s, c) ==
    LET sq == s.exp_avg_sq + 1
        s1 == [s EXCEPT !.exp_avg = ApplyGrad(s.exp_avg),
                        !.exp_avg_sq = sq,
                        !.exp_avg_sq_back =
                            IF s.step = freeze_step THEN [base |-> sq, n |-> 0]
                            ELSE s.exp_avg_sq_back]
        s2 == IF o.init /\ c # "one"
              THEN [s1 EXCEPT !.lamb_coeff_freeze = s1.lamb_coeff_freeze + 1]
              ELSE s1
    IN  [o EXCEPT !.st[p] = s2,
                  !.lc = IF o.init THEN Append(o.lc, WarmupCoeff(c)) ELSE o.lc,
                  !.pd[p] = IF o.init THEN o.pd[p] + 1 ELSE o.pd[p]]

\* faulty variant: the local update is not guarded by self.initialize
CompressionLocal_Unguarded(o, p, s) ==
    LET s1 == [s EXCEPT !.exp_avg = ApplyGrad(s.exp_avg)]
    IN  IF ~HasCoeff(o, p)
        THEN Raise([o EXCEPT !.st[p] = s1], "IndexError")
        ELSE [o EXCEPT !.st[p] = [s1 EXCEPT !.exp_avg.k = s1.exp_avg.k + 1]]

\* lines 244-250: compression-mode local update of one parameter
CompressionLocal(o, p, s) ==
    IF ~o.init THEN [o EXCEPT !.st[p] = s]
    ELSE LET s1 == [s EXCEPT !.exp_avg = ApplyGrad(s.exp_avg)]
         IN  IF ~HasCoeff(o, p)
             THEN Raise([o EXCEPT !.st[p] = s1], "IndexError")
             ELSE [o EXCEPT !.st[p] = [s1 EXCEPT !.exp_avg.k = s1.exp_avg.k + 1]]

\* lines 187-250 for parameter p
LoopBody(o, p, grad, c) ==
    IF grad = "none" THEN o
    ELSE IF grad = "sparse" THEN Raise(o, "RuntimeError")
    ELSE
      LET s0 == IF o.st[p].has = "empty" THEN InitState ELSE o.st[p]
          o1 == [o EXCEPT !.st[p] = s0, !.leak = p,
                          !.key = IF ~o.init THEN TRUE ELSE o.key]
      IN  IF s0.has # "full" THEN Raise(o1, "KeyError")
          ELSE LET s1 == [s0 EXCEPT !.step = s0.step + 1]
               IN  IF ~o1.key THEN WarmupUpdate(o1, p, s1, c)
                   ELSE CompressionLocal(o1, p, s1)

RECURSIVE LoopFrom(_, _, _, _)
LoopFrom(o, p, grads, coef) ==
    IF o.err # "ok" \/ p > NumParams THEN o
    ELSE LoopFrom(LoopBody(o, p, grads[p], coef[p]), p + 1, grads, coef)

Loop(o, grads, coef) == LoopFrom(o, 1, grads, coef)

\* ---- step(), lines 252-277: fusing the momenta into one padded buffer ----
\* faulty variant: the padding is added even when the size is already a multiple
CorrectedSize_AlwaysPads(n) ==
    n + ((size * divider) - (n % (size * divider)))

CorrectedSize(n) ==
    IF n % (size * divider) # 0
    THEN n + ((size * divider) - (n % (size * divider)))
    ELSE n

\* a tensor as the sequence of its elements: element j of the momentum of
\* parameter p is <<p, j>>, element j of the padding (dummy_exp_avg) is <<0, j>>
Elems(p, n) == [j \in 1..n |-> <<p, j>>]

\* momentum_groups: the momenta in group/parameter order, then the padding
MomentumGroups(difference) ==
    [p \in Params |-> Elems(p, numel[p])]
      \o (IF difference > 0 THEN <<Elems(0, difference)>> ELSE <<>>)

\* _flatten_dense_tensors: the tensors one after the other
RECURSIVE Flatten(_)
Flatten(tensors) ==
    IF tensors = <<>> THEN <<>> ELSE Head(tensors) \o Flatten(Tail(tensors))

\* _unflatten_dense_tensors: views of the flat buffer with the sizes of tensors
RECURSIVE Offset(_, _)
Offset(tensors, k) == IF k = 1 THEN 0
                      ELSE Offset(tensors, k - 1) + Len(tensors[k - 1])
Unflatten(flat, tensors) ==
    [k \in 1..Len(tensors) |->
        SubSeq(flat, Offset(tensors, k) + 1, Offset(tensors, k) + Len(tensors[k]))]

Fuse(o) ==
    IF o.err # "ok" \/ Len(o.flat) # 0 THEN o
    ELSE IF \E p \in Params : o.st[p].has # "full" THEN Raise(o, "KeyError")
    ELSE LET tensor_size == SumSeq(numel, NumParams)
             c == CorrectedSize(tensor_size)
         IN  [o EXCEPT !.flat = Append(o.flat, Flatten(MomentumGroups(c - tensor_size))),
                       !.cts = Append(o.cts, c),
                       !.scs = Append(o.scs, c \div size)]

\* ---- step(), lines 279-288: error buffers of an initialized optimizer ----
Zeros(n) == [size |-> n, ver |-> 0]

AllocErrors(o) ==
    IF o.err # "ok" \/ ~o.init \/ Len(o.we) # 0 THEN o
    ELSE [o EXCEPT !.we = o.we \o [i \in 1..Len(o.flat) |-> Zeros(o.cts[i])],
                   !.se = o.se \o [i \in 1..Len(o.flat) |-> Zeros(o.scs[i])]]

\* ---- step(), lines 290-320: the compressed all-reduce ----
\* compressed_allreduce(exp_avg_flat[0], we[i], se[i]): writes the fused buffer,
\* which every parameter's exp_avg is a view of, and both error buffers
AllZero(o, i) == /\ \A p \in Params : o.st[p].exp_avg.z
                 /\ o.we[i].ver = 0 /\ o.se[i].ver = 0

Reduced(o, i) ==
    [o EXCEPT !.st = [p \in Params |->
                        [o.st[p] EXCEPT !.exp_avg.r = o.st[p].exp_avg.r + 1,
                                        !.exp_avg.z = AllZero(o, i)]],
              !.we[i].ver = o.we[i].ver + 1,
              !.se[i].ver = o.se[i].ver + 1]

Reduce(o, fail) ==
    IF o.err # "ok" \/ ~o.key \/ size <= 1 THEN o
    ELSE IF ~o.init
    THEN LET o1 == [o EXCEPT !.we = Append(o.we, Zeros(o.cts[1])),
                             !.se = Append(o.se, Zeros(o.scs[1]))]
         IN  IF fail THEN Raise(o1, "TransportError")
             ELSE [Reduced(o1, 1) EXCEPT !.we = <<>>, !.se = <<>>]
    ELSE IF Len(o.we) < 1 \/ Len(o.se) < 1 THEN Raise(o, "IndexError")
    ELSE IF fail THEN Raise(o, "TransportError")
    ELSE Reduced(o, 1)

\* ---- step(), lines 322-373: the compression-mode update ----
\* lines 359-366: clamp to [factor_min, factor_max], then rate-limit
RateUp(lf) == (lf * (Threshold.den + Threshold.num)) \div Threshold.den
RateDown(lf) == (lf * (Threshold.den - Threshold.num)) \div Threshold.den

\* faulty variant: the rate limit against last_factor is missing
Factor_NoRateLimit(raw, lf) ==
    LET f1 == IF raw > factor_max THEN factor_max ELSE raw
        f2 == IF f1 < factor_min THEN factor_min ELSE f1
    IN  f2

\* faulty variant: the clamp to [factor_min, factor_max] is missing
Factor_NoClamp(raw, lf) ==
    LET f3 == IF raw > RateUp(lf) THEN RateUp(lf) ELSE raw
        f4 == IF f3 < RateDown(lf) THEN RateDown(lf) ELSE f3
    IN  f4

Factor(raw, lf) ==
    LET f1 == IF raw > factor_max THEN factor_max ELSE raw
        f2 == IF f1 < factor_min THEN factor_min ELSE f1
        f3 == IF f2 > RateUp(lf) THEN RateUp(lf) ELSE f2
        f4 == IF f3 < RateDown(lf) THEN RateDown(lf) ELSE f3
    IN  f4

\* faulty variant: the compression update also folds the trust ratio into
\* lamb_coeff_freeze, as the warm-up update does
UpdateBody_RefreshesFreeze(o, p, raw) ==
    IF ~HasCoeff(o, p) THEN Raise([o EXCEPT !.leak = p], "IndexError")
    ELSE LET s == o.st[p]
             s1 == [s EXCEPT !.exp_avg.k = s.exp_avg.k - 1,
                             !.exp_avg_sq_back.n = s.exp_avg_sq_back.n + 1,
                             !.lamb_coeff_freeze = s.lamb_coeff_freeze + 1,
                             !.last_factor = Factor(raw, s.last_factor)]
         IN  [o EXCEPT !.st[p] = s1,
                       !.lc = Append(o.lc, FrozenCoeff(s1.lamb_coeff_freeze, s1.last_factor)),
                       !.pd[p] = o.pd[p] + 1, !.leak = p]

UpdateBody(o, p, raw) ==
    IF ~HasCoeff(o, p) THEN Raise([o EXCEPT !.leak = p], "IndexError")
    ELSE LET s == o.st[p]
             s1 == [s EXCEPT !.exp_avg.k = s.exp_avg.k - 1,
                             !.exp_avg_sq_back.n = s.exp_avg_sq_back.n + 1,
                             !.last_factor = Factor(raw, s.last_factor)]
         IN  [o EXCEPT !.st[p] = s1,
                       !.lc = Append(o.lc, FrozenCoeff(s1.lamb_coeff_freeze, s1.last_factor)),
                       !.pd[p] = o.pd[p] + 1, !.leak = p]

RECURSIVE UpdateFrom(_, _, _)
UpdateFrom(o, p, raws) ==
    IF o.err # "ok" \/ p > NumParams THEN o
    ELSE UpdateFrom(UpdateBody(o, p, raws[p]), p + 1, raws)

Update(o, raws) ==
    IF o.err # "ok" \/ ~(o.key /\ o.init) THEN o
    ELSE UpdateFrom(o, 1, raws)

\* faulty variant: the end-of-bootstrap reset also runs after a compression step
Finish_AlwaysResets(o) ==
    IF o.err # "ok" THEN o
    ELSE IF ~o.init \/ o.key THEN [o EXCEPT !.key = FALSE, !.init = TRUE]
    ELSE IF o.leak = 0 THEN Raise(o, "UnboundLocalError")
    ELSE IF o.st[o.leak].step >= freeze_step
         THEN [o EXCEPT !.key = TRUE, !.eba = FALSE]
         ELSE o

\* faulty variant: the phase check compares with > instead of >=
Finish_StrictlyGreater(o) ==
    IF o.err # "ok" THEN o
    ELSE IF ~o.init THEN [o EXCEPT !.key = FALSE, !.init = TRUE]
    ELSE IF o.key THEN o
    ELSE IF o.leak = 0 THEN Raise(o, "UnboundLocalError")
    ELSE IF o.st[o.leak].step > freeze_step
         THEN [o EXCEPT !.key = TRUE, !.eba = FALSE]
         ELSE o

\* ---- step(), lines 375-388: end of the bootstrap step, phase check ----
Finish(o) ==
    IF o.err # "ok" THEN o
    ELSE IF ~o.init THEN [o EXCEPT !.key = FALSE, !.init = TRUE]
    ELSE IF o.key THEN o
    ELSE IF o.leak = 0 THEN Raise(o, "UnboundLocalError")
    ELSE IF o.st[o.leak].step >= freeze_step
         THEN [o EXCEPT !.key = TRUE, !.eba = FALSE]
         ELSE o

\* the whole of step(), on the optimizer o
StepFrom(o, grads, coef, raws, fail, mags) ==
    Finish(Update(Reduce(AllocErrors(Fuse(Loop(Calibrate(ClearCoeffs(o), mags),
                                                   grads, coef))),
                         fail),
                  raws))

StepResult(grads, coef, raws, fail, mags) ==
    StepFrom(Self, grads, coef, raws, fail, mags)

\* ---- the step action ----
Mode == IF ~initialize THEN "bootstrap"
        ELSE IF lamb_freeze_key THEN "compression" ELSE "warmup"

\* inputs are enumerated only where the step reads them
CoefInputs == IF Mode = "warmup" THEN [Params -> LambCoeffs]
              ELSE {[p \in Params |-> "other"]}
RawInputs == IF Mode = "compression" THEN [Params -> RawFactors]
             ELSE {[p \in Params |-> Unit]}
FailInputs == IF size > 1 /\ Mode # "warmup" THEN BOOLEAN ELSE {FALSE}
\* the magnitudes used where a run does not explore them: no two alike, so
\* that no coefficient is 1
OneMagnitude == {[p \in Params |-> IF p = 1 THEN 2 ELSE 8]}
MagInputs == IF lamb_freeze_key /\ Len(scaling_coeffs) = 0
             THEN [Params -> Magnitudes] ELSE OneMagnitude

Commit(o) ==
    /\ lamb_freeze_key' = o.key
    /\ initialize' = o.init
    /\ state' = o.st
    /\ pdata' = o.pd
    /\ exp_avg_flat' = o.flat
    /\ corrected_tensor_sizes' = o.cts
    /\ server_chunk_sizes' = o.scs
    /\ worker_errors' = o.we
    /\ server_errors' = o.se
    /\ scaling_coeffs' = o.sc
    /\ enable_backward_allreduce' = o.eba
    /\ lamb_coeffs' = o.lc

\* every operation counts against the length of the behaviour
Tick == nops < MaxOps /\ nops' = nops + 1

\* one call of step() with its inputs drawn from the given sets
StepWith(GradSet, CoefSet, RawSet, FailSet, MagSet) ==
    /\ ncalls < MaxCalls
    /\ Tick
    /\ \E grads \in GradSet, coef \in CoefSet, raws \in RawSet, fail \in FailSet,
          mags \in MagSet :
         \* the trust ratio of a parameter is computed only when it has a gradient
         /\ \A p \in Params : grads[p] # "dense" => coef[p] = "other"
         \* a sparse gradient raises before the reduction, a failed reduction
         \* before the compression update: the inputs they never read are fixed
         /\ (\E p \in Params : grads[p] = "sparse")
              => fail = (CHOOSE f \in FailSet : TRUE)
         /\ (fail \/ \E p \in Params : grads[p] = "sparse")
              => raws = (CHOOSE r \in RawSet : TRUE)
         /\ LET o == StepResult(grads, coef, raws, fail, mags)
            IN  /\ Commit(o)
                /\ last' = Did("step", o.err, Mode,
                                initialize /\ ~lamb_freeze_key /\ o.key, {})
                /\ clean' = (clean /\ o.err = "ok"
                                   /\ \A p \in Params : grads[p] = "dense")
    /\ restored' = (restored /\ Mode # "compression")
    /\ ncalls' = ncalls + 1
    /\ UNCHANGED <<freeze_step, size, factor_min, factor_max, numel, ckpt, inst>>

Step ==
    /\ StepWith([Params -> GradKinds], CoefInputs, RawInputs, FailInputs, OneMagnitude)
    /\ UNCHANGED peer

\* ---- state_dict(), lines 390-398 ----
StateDict == [present |-> TRUE, st |-> state, worker_errors |-> worker_errors,
              server_errors |-> server_errors, scaling_coeffs |-> scaling_coeffs]

Save ==
    /\ Tick
    /\ ckpt' = StateDict
    /\ last' = Did("save", "ok", "none", FALSE, {})
    /\ UNCHANGED <<freeze_step, size, factor_min, factor_max, numel, lamb_freeze_key,
                   initialize, state, pdata, exp_avg_flat, corrected_tensor_sizes,
                   server_chunk_sizes, worker_errors, server_errors, scaling_coeffs,
                   enable_backward_allreduce, lamb_coeffs, peer, ncalls, inst, clean,
                   restored>>

\* ---- load_state_dict(), lines 400-448 ----
CkptFields == {"worker_errors", "server_errors", "scaling_coeffs"}
\* the checkpoint handed to load_state_dict: as saved, or lacking one field
MissingSets == {{}} \cup {{f} : f \in CkptFields}

\* faulty variant: an absent field defaults to an empty list
LoadCompression_Defaults(o, c, missing) ==
    [o EXCEPT !.we = IF "worker_errors" \in missing THEN <<>> ELSE c.worker_errors,
              !.se = IF "server_errors" \in missing THEN <<>> ELSE c.server_errors,
              !.sc = IF "scaling_coeffs" \in missing THEN <<>> ELSE c.scaling_coeffs]

\* lines 424-433
LoadCompression(o, c, missing) ==
    IF "worker_errors" \in missing THEN Raise(o, "KeyError")
    ELSE LET o1 == [o EXCEPT !.we = c.worker_errors]
    IN  IF "server_errors" \in missing THEN Raise(o1, "KeyError")
    ELSE LET o2 == [o1 EXCEPT !.se = c.server_errors]
    IN  IF "scaling_coeffs" \in missing THEN Raise(o2, "KeyError")
    ELSE LET o3 == [o2 EXCEPT !.sc = c.scaling_coeffs]
    IN  IF Len(o3.se) < Len(o3.we) THEN Raise(o3, "IndexError") ELSE o3

\* faulty variant: the raw-gradient all-reduce is not enabled again
LoadWarmup_NoReenable(o) ==
    [o EXCEPT !.key = FALSE,
              !.we = <<>>, !.se = <<>>, !.sc = <<>>,
              !.st = [p \in Params |->
                        [o.st[p] EXCEPT
                           !.has = IF o.st[p].has = "empty" THEN "partial"
                                   ELSE o.st[p].has,
                           !.lamb_coeff_freeze = 0,
                           !.last_factor = Unit]]]

\* lines 439-448
LoadWarmup(o) ==
    [o EXCEPT !.key = FALSE,
              !.eba = IF o.key THEN TRUE ELSE o.eba,
              !.we = <<>>, !.se = <<>>, !.sc = <<>>,
              !.st = [p \in Params |->
                        [o.st[p] EXCEPT
                           !.has = IF o.st[p].has = "empty" THEN "partial"
                                   ELSE o.st[p].has,
                           !.lamb_coeff_freeze = 0,
                           !.last_factor = Unit]]]

LoadResult(c, missing) ==
    LET o == [Self EXCEPT !.st = c.st, !.flat = <<>>, !.cts = <<>>, !.scs = <<>>]
    IN  IF o.st[ParamAt(1, 1)].has # "full" THEN Raise(o, "KeyError")
        ELSE IF o.st[ParamAt(1, 1)].step >= freeze_step
             THEN LoadCompression(o, c, missing)
             ELSE LoadWarmup(o)

LoadBranch(c) ==
    IF c.st[ParamAt(1, 1)].has # "full" THEN "none"
    ELSE IF c.st[ParamAt(1, 1)].step >= freeze_step THEN "compression"
    ELSE "warmup"

Load ==
    /\ Tick
    /\ ckpt.present
    /\ \E missing \in (IF LoadBranch(ckpt) = "compression" THEN MissingSets ELSE {{}}) :
         LET o == LoadResult(ckpt, missing)
         IN  /\ Commit(o)
             /\ last' = Did("load", o.err, LoadBranch(ckpt),
                             lamb_freeze_key /\ ~o.key, missing)
             /\ restored' = (o.err = "ok" /\ LoadBranch(ckpt) = "compression"
                              /\ Len(o.we) > 0)
    /\ clean' = FALSE
    /\ UNCHANGED <<freeze_step, size, factor_min, factor_max, numel, peer, ckpt, ncalls,
                   inst>>

\* ---- a new optimizer instance (a restarted job), lines 54-129 ----
Construct ==
    /\ Tick
    /\ inst < MaxInstances
    /\ inst' = inst + 1
    /\ lamb_freeze_key' = FALSE
    /\ initialize' = FALSE
    /\ state' = [p \in Params |-> EmptyState]
    /\ pdata' = [p \in Params |-> 0]
    /\ exp_avg_flat' = <<>>
    /\ corrected_tensor_sizes' = <<>>
    /\ server_chunk_sizes' = <<>>
    /\ worker_errors' = <<>>
    /\ server_errors' = <<>>
    /\ scaling_coeffs' = <<>>
    /\ enable_backward_allreduce' = TRUE
    /\ lamb_coeffs' = <<>>
    /\ last' = Did("construct", "ok", "none", FALSE, {})
    /\ ncalls' = 0
    /\ clean' = TRUE
    /\ restored' = FALSE
    /\ UNCHANGED <<freeze_step, size, factor_min, factor_max, numel, peer, ckpt>>

\* ---- specifications ----
\* a training run of one optimizer instance: every gradient, trust-ratio and
\* raw-factor input, one momentum magnitude, no checkpoint
Next == Step

Spec == Init /\ [][Next]_vars

\* training with checkpoints and restarts; in every step each parameter has a
\* dense gradient or none (sparse gradients are explored by Spec), one
\* trust-ratio class and one raw factor, the default factor bounds
StepCkpt ==
    /\ StepWith([Params -> {"none", "dense"}], {[p \in Params |-> "other"]},
                {[p \in Params |-> 8 * Unit]}, FailInputs, OneMagnitude)
    /\ UNCHANGED peer

InitCkpt == Init /\ factor_min <= Unit

NextCkpt == StepCkpt \/ Save \/ Load \/ Construct

SpecCkpt == InitCkpt /\ [][NextCkpt]_vars

\* one run without failures, every parameter with a dense gradient in every
\* step, over every world size, every shape and every momentum magnitude
StepShapes ==
    /\ StepWith({[p \in Params |-> "dense"]}, {[p \in Params |-> "other"]},
                {[p \in Params |-> Unit]}, {FALSE}, MagInputs)
    /\ UNCHANGED peer

InitShapes == InitWith({1}, 1..MaxWorld, [Params -> 1..MaxNumel], {NoPeer})

SpecShapes == InitShapes /\ [][StepShapes]_vars

\* two workers of one job, same configuration, stepping in lock-step; each
\* gets its own gradients, and which parameters have one may differ; the job
\* ends when a step raises on either worker
PeerStep(grads) ==
    StepFrom([peer EXCEPT !.leak = 0, !.err = "ok"], grads,
             [p \in Params |-> "other"], [p \in Params |-> Unit], FALSE,
             CHOOSE m \in OneMagnitude : TRUE)

StepTwo ==
    /\ StepWith([Params -> {"none", "dense"}], {[p \in Params |-> "other"]},
                {[p \in Params |-> Unit]}, {FALSE}, OneMagnitude)
    /\ \E grads \in [Params -> {"none", "dense"}] : peer' = PeerStep(grads)
    /\ last'.err = "ok" /\ peer'.err = "ok"

InitTwo == InitWith(FreezeSteps, {2}, {ParamNumel}, {Fresh})

SpecTwo == InitTwo /\ [][StepTwo]_vars

\* ---- sanity of the model ----
\* the rate limits of Factor are exact in factor units
FactorExact ==
    \A p \in Params :
        /\ (state[p].last_factor * (Threshold.den + Threshold.num)) % Threshold.den = 0
        /\ (state[p].last_factor * (Threshold.den - Threshold.num)) % Threshold.den = 0

\* ======================= properties =======================
Compression == lamb_freeze_key /\ initialize
StepDone == last.op = "step" /\ last.err = "ok"

\* C1: once the optimizer is in COMPRESSION (lamb_freeze_key and initialize
\* both True), no call of step, failed or not, clears lamb_freeze_key or
\* initialize; on one optimizer instance the phase goes back to WARMUP only
\* in a load_state_dict that takes the warm-up branch (restored step count
\* below freeze_step).
C1_CompressionTerminal ==
    [][ (Compression /\ inst' = inst /\ ~(lamb_freeze_key' /\ initialize'))
          => (last'.op = "load" /\ last'.mode = "warmup" /\ initialize') ]_vars

\* a compression-mode step has run and the optimizer is still in COMPRESSION
C1_Witness ==
    /\ last.op = "step" /\ last.mode = "compression"
    /\ Compression

\* the call of step (1-indexed) at whose end a clean run changes phase
TransitionCall == IF freeze_step < 2 THEN 2 ELSE freeze_step

ModeOfCall(n, t) == IF n = 1 THEN "bootstrap"
                    ELSE IF n <= t THEN "warmup" ELSE "compression"

C3_AnyCounterTriggers ==
    (StepDone /\ last.mode # "bootstrap"
       /\ \E p \in Params : state[p].has = "full" /\ state[p].step >= freeze_step)
      => lamb_freeze_key

\* C4: a step taken with initialize False changes no parameter value and
\* applies no gradient to any momentum; when it returns, the fused buffer
\* exists, the optimizer is in WARMUP with initialize True and, as in
\* COMPRESSION, the compressed reduction has been invoked (world size above 1,
\* some parameter with a gradient).  No step and no load_state_dict of an
\* instance makes initialize False again.
C4_Bootstrap ==
    /\ [][ (last'.op = "step" /\ ~initialize)
             => /\ pdata' = pdata
                /\ \A p \in Params : state'[p].exp_avg.g = state[p].exp_avg.g
                /\ last'.err = "ok"
                     => /\ Len(exp_avg_flat') = 1
                        /\ initialize' /\ ~lamb_freeze_key'
                        /\ (size > 1 /\ \E q \in Params : state'[q].step # state[q].step)
                             => \A p \in Params :
                                  state'[p].exp_avg.r = state[p].exp_avg.r + 1 ]_vars
    /\ [][ (initialize /\ inst' = inst) => initialize' ]_vars

\* a bootstrap step has returned
C4_Witness ==
    /\ StepDone /\ last.mode = "bootstrap"
    /\ initialize /\ ~lamb_freeze_key /\ Len(exp_avg_flat) = 1

\* the checkpoint was saved by an optimizer that had run a compression-mode step
SavedInCompression == ckpt.present /\ Len(ckpt.scaling_coeffs) = NumGroups

\* C5: load_state_dict of a checkpoint taken at step count >= freeze_step (by
\* an optimizer in COMPRESSION) leaves the optimizer in COMPRESSION with the
\* error buffers and the scaling coefficients it had at save time.
C5_RoundTrip ==
    (last.op = "load" /\ last.err = "ok" /\ last.mode = "compression"
       /\ SavedInCompression)
      => /\ lamb_freeze_key
         /\ worker_errors = ckpt.worker_errors
         /\ server_errors = ckpt.server_errors
         /\ scaling_coeffs = ckpt.scaling_coeffs

\* C6: after load_state_dict of a checkpoint whose step count is below
\* freeze_step, whatever the phase was before, the optimizer is in WARMUP,
\* the error buffers and the scaling coefficients are empty, every parameter
\* has lamb_coeff_freeze 0.0 and last_factor 1.0, and the raw-gradient
\* all-reduce is enabled.
C6_WarmupReload ==
    (last.op = "load" /\ last.err = "ok" /\ last.mode = "warmup")
      => /\ ~lamb_freeze_key
         /\ worker_errors = <<>> /\ server_errors = <<>> /\ scaling_coeffs = <<>>
         /\ \A p \in Params : /\ state[p].lamb_coeff_freeze = 0
                              /\ state[p].last_factor = Unit
         /\ enable_backward_allreduce

\* a warm-up checkpoint was loaded into an optimizer that was in COMPRESSION
C6_Witness ==
    /\ last.op = "load" /\ last.err = "ok" /\ last.mode = "warmup"
    /\ last.trans /\ initialize

\* C7: restored error buffers persist until they are used: a step that runs
\* between the load of a compression checkpoint and the first compression-mode
\* step leaves worker_errors and server_errors as restored, and the first
\* compression-mode step leaves them as restored or hands them to the
\* reduction, which writes them in place.  Stated for restored buffers that
\* carry the residual of an earlier reduction.
C7_RestoredErrorsPersist ==
    [][ (restored /\ Len(worker_errors) > 0 /\ worker_errors[1].ver > 0
           /\ last'.op = "step")
          => IF Mode # "compression"
             THEN worker_errors' = worker_errors /\ server_errors' = server_errors
             ELSE /\ worker_errors' \in
                       {worker_errors,
                        [worker_errors EXCEPT ![1].ver = worker_errors[1].ver + 1]}
                  /\ server_errors' \in
                       {server_errors,
                        [server_errors EXCEPT ![1].ver = server_errors[1].ver + 1]} ]_vars

\* C8: load_state_dict of a checkpoint whose step count is >= freeze_step and
\* which lacks worker_errors, server_errors or scaling_coeffs raises KeyError;
\* it never completes.
C8_MissingFieldsFatal ==
    (last.op = "load" /\ last.mode = "compression" /\ last.miss # {})
      => last.err = "KeyError"

\* a compression checkpoint without server_errors was refused
C8_Witness ==
    /\ last.op = "load" /\ last.mode = "compression"
    /\ last.miss = {"server_errors"} /\ last.err = "KeyError"

\* C9: a step that raises on a sparse gradient leaves the optimizer state as
\* it was before the call.
C9_SparseAbortsClean ==
    [][ (last'.op = "step" /\ last'.err = "RuntimeError")
          => /\ state' = state /\ pdata' = pdata
             /\ scaling_coeffs' = scaling_coeffs
             /\ lamb_freeze_key' = lamb_freeze_key
             /\ initialize' = initialize ]_vars

\* the factor bounds admit the initial last_factor 1.0
FactorBoundsAdmitOne == factor_min <= Unit /\ Unit <= factor_max

C11_RateLimited ==
    [][ (last'.op = "step" /\ Mode = "compression")
          => \A p \in Params :
               /\ RateDown(state[p].last_factor) <= state'[p].last_factor
               /\ state'[p].last_factor <= RateUp(state[p].last_factor) ]_vars

\* a compression-mode update moved a factor by the full rate limit from 1.0,
\* and the next one moved it by the full rate limit again
C11_Witness ==
    /\ StepDone /\ last.mode = "compression"
    /\ \E p \in Params : state[p].last_factor = RateUp(RateUp(Unit))

Lcm(a, b) == CHOOSE m \in 1..(a * b) :
                /\ m % a = 0 /\ m % b = 0
                /\ \A k \in 1..(m - 1) : ~(k % a = 0 /\ k % b = 0)

\* the smallest multiple of m that is >= n
SmallestMultiple(m, n) == CHOOSE c \in n..(n + m) :
                             /\ c % m = 0
                             /\ \A k \in n..(c - 1) : k % m # 0

TotalNumel == SumSeq(numel, NumParams)

\* C12: for every world size and every total element count, divider is
\* lcm(8, world_size); once the momenta are fused, the fused buffer has
\* corrected_tensor_sizes[0] elements, the smallest multiple of
\* world_size * divider that is >= the total element count,
\* server_chunk_sizes[0] is that count divided by world_size, and unflattening
\* the buffer gives each parameter's momentum back, element for element, in
\* group/parameter order, with the padding at the end.
C12_FusedLayout ==
    /\ divider = Lcm(8, size)
    /\ Len(exp_avg_flat) = 1
         => LET fused == exp_avg_flat[1]
                views == Unflatten(fused, MomentumGroups(Len(fused) - TotalNumel))
            IN  /\ Len(fused) = corrected_tensor_sizes[1]
                /\ corrected_tensor_sizes[1] = SmallestMultiple(size * divider, TotalNumel)
                /\ server_chunk_sizes[1] * size = corrected_tensor_sizes[1]
                /\ \A p \in Params : views[p] = Elems(p, numel[p])
                /\ \A j \in (TotalNumel + 1)..Len(fused) : fused[j][1] = 0

\* the momenta were fused for a world size that is not a power of two, with
\* padding, and a compression-mode step has run on the fused buffer
C12_Witness ==
    /\ StepDone /\ last.mode = "compression"
    /\ size = 3 /\ Len(exp_avg_flat) = 1
    /\ Len(exp_avg_flat[1]) > TotalNumel

\* a * b = c for the fraction a, the integer b and the fraction c
TimesEq(a, b, c) == a.num * b * c.den = c.num * a.den

\* the coefficient and the magnitude recorded for parameter p
CoeffOf(p) == scaling_coeffs[GroupOf(p)][IndexIn(p)]

\* the mean of the magnitudes the coefficients were computed from
MeanMagnitude == [num |-> SumSeq([q \in Params |-> CoeffOf(q).scale], NumParams),
                  den |-> NumParams]

\* C13: when the scaling coefficients have been computed, for every parameter
\* the coefficient times the parameter's momentum magnitude equals
\* united_scale, the mean of all parameters' magnitudes; in particular the
\* coefficients of parameters with magnitudes 2 and 8 are in ratio 4 : 1.
C13_UnitedScale ==
    Len(scaling_coeffs) = NumGroups
      => /\ \A p \in Params :
               TimesEq(CoeffOf(p).value, CoeffOf(p).scale, MeanMagnitude)
         /\ \A p, q \in Params :
               (CoeffOf(p).scale = 2 /\ CoeffOf(q).scale = 8)
                 => TimesEq(CoeffOf(q).value, 4, CoeffOf(p).value)

\* the coefficients were computed from the magnitudes 2 and 8
C13_Witness ==
    /\ StepDone /\ last.mode = "compression" /\ Len(scaling_coeffs) = NumGroups
    /\ CoeffOf(1).scale = 2 /\ CoeffOf(2).scale = 8

\* C14: the scaling coefficients and the fused layout are computed once per
\* entry into COMPRESSION: a step computes the scaling coefficients only when
\* it starts in COMPRESSION with none computed, never in the bootstrap step
\* or a warm-up step; the first step that starts in COMPRESSION and completes
\* computes them; and a step that starts in COMPRESSION leaves computed
\* coefficients and an existing fused buffer with its sizes as they are.
C14_ComputedOnce ==
    [][ last'.op = "step"
          => /\ scaling_coeffs' # scaling_coeffs
                  => (Mode = "compression" /\ scaling_coeffs = <<>>)
             /\ (Mode = "compression" /\ last'.err = "ok")
                  => Len(scaling_coeffs') = NumGroups
             /\ (Mode = "compression" /\ exp_avg_flat # <<>>)
                  => /\ exp_avg_flat' = exp_avg_flat
                     /\ corrected_tensor_sizes' = corrected_tensor_sizes
                     /\ server_chunk_sizes' = server_chunk_sizes ]_vars

\* C15: in every completed compression-mode step the momentum of every
\* parameter is multiplied by its scaling coefficient once before the
\* reduction and divided by it once after, so the net scale is 1: a parameter
\* with a gradient has had the gradient applied once, a parameter without a
\* gradient keeps its momentum apart from the reduction.
C15_ScaleThenUnscale ==
    [][ (last'.op = "step" /\ last'.err = "ok" /\ Mode = "compression")
          => \A p \in Params :
               /\ state'[p].exp_avg.k = state[p].exp_avg.k
               /\ state'[p].exp_avg.g =
                     state[p].exp_avg.g + (IF state'[p].step # state[p].step THEN 1 ELSE 0)
       ]_vars

\* C16: when a step moves the optimizer from WARMUP to COMPRESSION, every
\* parameter's exp_avg_sq_back has been snapshotted from its exp_avg_sq, by
\* the warm-up update in which its step counter equalled freeze_step.
C16_SnapshotBeforeCompression ==
    (last.op = "step" /\ last.trans)
      => \A p \in Params : /\ state[p].exp_avg_sq_back.base > 0
                           /\ state[p].exp_avg_sq_back.base <= state[p].exp_avg_sq

\* C17: a step that does not run in warm-up mode leaves every parameter's
\* lamb_coeff_freeze and exp_avg_sq as they are, and the trust ratio a
\* completed compression-mode step applies to a parameter is that frozen
\* lamb_coeff_freeze times the parameter's new last_factor.
C17_FrozenInCompression ==
    [][ (last'.op = "step" /\ Mode # "warmup")
          => /\ \A p \in Params :
                   /\ state'[p].lamb_coeff_freeze = state[p].lamb_coeff_freeze
                   /\ state'[p].exp_avg_sq = state[p].exp_avg_sq
             /\ (Mode = "compression" /\ last'.err = "ok")
                  => /\ Len(lamb_coeffs') = NumParams
                     /\ \A p \in Params :
                          lamb_coeffs'[p] = FrozenCoeff(state[p].lamb_coeff_freeze,
                                                        state'[p].last_factor) ]_vars

\* a compression-mode step applied a frozen trust ratio that a warm-up update
\* had moved away from 0.0, with a factor other than 1.0
C17_Witness ==
    /\ StepDone /\ last.mode = "compression"
    /\ Len(lamb_coeffs) = NumParams
    /\ \E p \in Params : /\ state[p].lamb_coeff_freeze > 0
                          /\ state[p].exp_avg_sq > 0
                          /\ lamb_coeffs[p].factor # Unit

\* C18: two workers with the same configuration that run the same sequence
\* of steps, whatever gradients each receives and whichever parameters have
\* one, are in the same phase after every step, have invoked the compressed
\* reduction the same number of times and with the same fused-buffer length.
C18_WorkersAgree ==
    last.op = "step"
      => /\ peer.key = lamb_freeze_key /\ peer.init = initialize
         /\ \A p \in Params : peer.st[p].exp_avg.r = state[p].exp_avg.r
         /\ peer.cts = corrected_tensor_sizes

\* C19: after every completed step and every completed load_state_dict,
\* enable_backward_allreduce is False exactly when lamb_freeze_key is True.
C19_AllreduceTracksPhase ==
    (last.op \in {"step", "load"} /\ last.err = "ok")
      => (enable_backward_allreduce <=> ~lamb_freeze_key)

\* C20: a step in which compressed_allreduce raises, in the bootstrap or in
\* COMPRESSION, ends with the error, has changed no parameter value, and
\* leaves lamb_freeze_key and initialize as they were before the step.
C20_ReduceFailureKeepsPhase ==
    [][ (last'.op = "step" /\ last'.err = "TransportError")
          => /\ pdata' = pdata
             /\ lamb_freeze_key' = lamb_freeze_key
             /\ initialize' = initialize ]_vars

\* C21: a parameter without a gradient is skipped by the step, in every
\* phase: its value, momentum, second moments, last_factor and step counter
\* are the same after the step as before.  In a completed step the
\* parameters without a gradient are those whose step counter the step did
\* not increment (a dense gradient increments it, a sparse one raises).
C21_NoGradientSkipped ==
    [][ (last'.op = "step" /\ last'.err = "ok")
          => \A p \in Params :
               state'[p].step = state[p].step
                 => (pdata'[p] = pdata[p] /\ state'[p] = state[p]) ]_vars

\* C22: after any sequence of step and load_state_dict calls, the state of
\* every parameter is either empty or holds all six fields.
C22_StateEmptyOrFull ==
    \A p \in Params : state[p].has \in {"empty", "full"}

====
